---- MODULE Spec2Model ----
(***************************************************************************)
(* pm2-webui: the Telegram command dispatcher, the PM2 event relay         *)
(* (src/services/telegram.service.js) and the git synchronizer             *)
(* (src/utils/git.util.js), as a state machine.                            *)
(*                                                                         *)
(*   Spec      : the command handlers, one step per awaited call           *)
(*   SpecRelay : startTelegramBot / stopTelegramBot, the PM2 bus and the   *)
(*               process:event listener                                    *)
(*                                                                         *)
(* Every action overwrites the observation variables step, sent and calls  *)
(* (and result, event, produced where they apply) with what that step did: *)
(* the messages handed to bot.sendMessage and the downstream calls issued. *)
(***************************************************************************)
EXTENDS Integers, Sequences, FiniteSets, Bags, TLC

\* ------------------------------------------------------------------ bounds
\* Commands whose handler is suspended at an await at the same time.
MaxTasks == 2
\* Calls of startTelegramBot in one run.
MaxStarts == 2

\* --------------------------------------------------------------- constants
\* execa is called with { cwd } only: its timeout option keeps the default, 0,
\* which means that no timer is armed.
ExecaTimeout == 0

None == "None"
NoName == <<>>

\* ------------------------------------------------------------ the inputs
Senders == {1, 3}
\* config.TELEGRAM_ALLOWED_USER_IDS as parsed: empty (allow all), or a list
\* whose first entry is not the sender the model lets in.
Allowlists == {<<>>, <<2, 1>>}

Cmds == {"start", "help", "status", "start_app", "stop_app", "restart_app",
         "reload_app", "git_status", "git_check", "git_pull"}
ArgCmds == {"start_app", "stop_app", "restart_app", "reload_app",
            "git_status", "git_check", "git_pull"}
LifecycleCmds == {"start_app", "stop_app", "restart_app", "reload_app"}
GitCmds == {"git_status", "git_check", "git_pull"}

\* What follows the command word in the message text, as characters.
Rests == { <<>>, <<" ", " ">>, <<" ", "a", " ">>, <<" ", "g">> }

\* The supervisor knows one process, "a"; "g" is unknown to it.
Known == { <<"a">> }
Statuses == {"online", "stopped"}

\* ---------------------------------------------------- the commit graph
\* 1 <- 2 <- 3 is the remote branch; 4 is a local commit on top of 1;
\* 5, 6 and 7 are the merge commits a pull of a diverged branch creates.
Commits == 1..7
Parents(c) ==
    CASE c = 1 -> {}
      [] c = 2 -> {1}
      [] c = 3 -> {2}
      [] c = 4 -> {1}
      [] c = 5 -> {4, 2}
      [] c = 6 -> {4, 3}
      [] c = 7 -> {5, 3}

RECURSIVE Anc(_)
\* The commits reachable from c, c included.
Anc(c) == {c} \cup UNION { Anc(p) : p \in Parents(c) }

\* git merge of the remote commit r into the local commit l.
MergeCommit(l, r) ==
    CASE l = 4 /\ r = 2 -> 5
      [] l = 4 /\ r = 3 -> 6
      [] l = 5 /\ r = 3 -> 7

\* git rev-parse --short: an abbreviation that names one commit only.
ShortHash(c) ==
    <<"a1a1a1a", "b2b2b2b", "c3c3c3c", "d4d4d4d", "e5e5e5e", "f6f6f6f", "0707070">>[c]
CommitOf(h) == CHOOSE c \in Commits : ShortHash(c) = h

\* git rev-list --count a..b, printed and parsed back by parseInt.
RevListCount(a, b) == Cardinality(Anc(CommitOf(b)) \ Anc(CommitOf(a)))

\* ------------------------------------------------------ text of a message
IsSpace(ch) == ch = " "

RECURSIVE LeadingSpaces(_)
LeadingSpaces(s) ==
    IF s # <<>> /\ IsSpace(Head(s)) THEN 1 + LeadingSpaces(Tail(s)) ELSE 0

\* match[1] of /\/cmd(?:\s+(.+))?/ on "/cmd" followed by rest; <<>> stands for
\* undefined (.+ never matches the empty string). \s+ is greedy and gives one
\* character back when nothing is left for .+ .
Match1(rest) ==
    LET k == LeadingSpaces(rest)
    IN  IF k = 0 THEN <<>>
        ELSE IF k < Len(rest) THEN SubSeq(rest, k + 1, Len(rest))
        ELSE IF k >= 2 THEN << rest[k] >>
        ELSE <<>>

RECURSIVE TrimRight(_)
TrimRight(s) ==
    IF s # <<>> /\ IsSpace(s[Len(s)]) THEN TrimRight(SubSeq(s, 1, Len(s) - 1)) ELSE s

\* The handler without .trim(): match[1] as matched.
TrimNothing(s) == s

\* String.prototype.trim
Trim(s) == TrimRight(SubSeq(s, LeadingSpaces(s) + 1, Len(s)))

\* The text after the command word holds no argument: nothing, or white space.
Blank(rest) == \A i \in 1..Len(rest) : IsSpace(rest[i])

\* const processName = match[1]?.trim();
ProcessName(rest) == Trim(Match1(rest))
ProcessNameOf == [rest \in Rests |-> ProcessName(rest)]

VARIABLES
    allowlist,   \* config.TELEGRAM_ALLOWED_USER_IDS
    enabled,     \* config.TELEGRAM_ENABLED and a configured TELEGRAM_BOT_TOKEN
    bot,         \* the module's bot: 0 is null, n the n-th TelegramBot created
    pm2Bus,      \* the module's pm2Bus: 0 is null, n the bus of the n-th subscription
    subs,        \* subs[n]: where the n-th call of subscribeToPm2Bus stands
    connected,   \* whether the module's pm2 client holds a connection to the daemon
    tasks,       \* the bag of handlers suspended at an await
    procStatus,  \* the supervisor's status of each process it knows
    isRepo,      \* whether the process's working directory is a git repository
    gitHangs,    \* whether the git client's network commands never exit
    head,        \* the commit checked out in the working directory
    origin,      \* the remote-tracking ref origin/<branch>
    remoteTip,   \* the branch's commit on the remote
    branch,      \* the branch checked out in the working directory
    step,        \* observation: the step just taken
    sent,        \* observation: the messages that step handed to bot.sendMessage
    calls,       \* observation: the downstream calls that step issued
    result,      \* observation: what a Synchronizer operation returned in that step
    event,       \* observation: the PM2 event that step delivered
    produced,    \* observation: the alerts the listeners built for it
    lastCheck    \* history: the last return of checkForUpdates (SpecTwice records it)

vars == << allowlist, enabled, bot, pm2Bus, subs, connected, tasks, procStatus, isRepo, gitHangs,
           head, origin, remoteTip, branch, step, sent, calls, result, event, produced,
           lastCheck >>

configVars == << allowlist, enabled >>
relayVars == << bot, pm2Bus, subs >>
gitVars == << isRepo, gitHangs, head, origin, remoteTip, branch >>

\* A step: its action, the sender and the command word of the message it
\* serves, whether the text after the command word was white space only (or
\* nothing), and the processName the handler works on.
NoStep == [kind |-> "init", from |-> 0, cmd |-> None, blank |-> FALSE, arg |-> NoName]
NoResult == [op |-> None]
\* How the subprocess or the supervisor call of a step ended: 0, or a rejection.
Exit(ok) == [exit |-> IF ok THEN 0 ELSE 1]
\* What an operation of the supervisor came to.
Outcome(op, ok) == [op |-> op] @@ Exit(ok)
NoEvent == [event |-> None, name |-> None, exit_code |-> 0]

\* -------------------------------------------------------------- allowlist
\* isAllowedUser without the lookup: every sender passes.
IsAllowedUserAnyone(userId) == TRUE

\* isAllowedUser
IsAllowedUser(userId) ==
    IF Len(allowlist) = 0 THEN TRUE
    ELSE \E i \in 1..Len(allowlist) : allowlist[i] = userId

\* getAlertChatId taking the last entry of the allowlist.
GetAlertChatIdLast ==
    IF Len(allowlist) > 0 THEN allowlist[Len(allowlist)] ELSE 0

\* getAlertChatId: 0 stands for null.
GetAlertChatId ==
    IF Len(allowlist) > 0 THEN allowlist[1] ELSE 0

\* The variable part of a text: fixed words, or "<n> commit(s) behind".
Text(t) == [text |-> t]
NoText == Text(None)

\* One bot.sendMessage(chat, text): the chat, which text, the process it names
\* and the variable part of the text.
Reply(to, kind, name, detail) == [to |-> to, kind |-> kind, name |-> name, detail |-> detail]

\* The working directory's branch: main, or a branch dev made at the same
\* commit and pushed with it.
Branches == {"main", "dev"}
CheckedOut == branch

\* ------------------------------------------------------------------ tasks
\* A handler suspended at an await: pc names the call it awaits.
Task(cmd, from, arg, pc) ==
    [cmd |-> cmd, from |-> from, arg |-> arg, pc |-> pc,
     cur |-> None, br |-> None, rem |-> None, w |-> << 0, 0 >>]

InFlight == BagToSet(tasks)
\* A handler whose end takes every other handler in flight with it.
FinishAll(r) == EmptyBag
Resume(r, r2) == (tasks (-) SetToBag({r})) (+) SetToBag({r2})
Finish(r) == tasks (-) SetToBag({r})

\* What the synchronous part of a handler did.
Out(s, c, spawn) == [sent |-> s, calls |-> c, spawn |-> spawn]

\* checkAccess, and what the handler does when it returns false.
CheckAccess(m) == IsAllowedUser(m.from)
Denied(m) == Out(<< Reply(m.from, "denied", NoName, NoText) >>, {}, {})

\* bot.onText(/\/start/) and bot.onText(/\/help/)
InfoHandler(h, m) ==
    IF ~CheckAccess(m) THEN Denied(m)
    ELSE Out(<< Reply(m.from, IF h = "start" THEN "welcome" ELSE "help", NoName, NoText) >>,
             {}, {})

\* bot.onText(/\/status/)
StatusHandler(h, m) ==
    IF ~CheckAccess(m) THEN Denied(m)
    ELSE Out(<<>>, {"listApps"}, { Task(h, m.from, NoName, "listApps") })

\* A /git_pull handler that pulls without describeApp's answer.
FirstCallUnresolved(h) ==
    CASE h = "start_app" -> "pm2.connect"
      [] h = "stop_app" -> "stopApp"
      [] h = "restart_app" -> "restartApp"
      [] h = "reload_app" -> "reloadApp"
      [] h = "git_pull" -> "rev-parse-branch"
      [] OTHER -> "describeApp"

\* A /git_status handler that asks git before it asks the supervisor.
FirstCallGitFirst(h) ==
    CASE h = "start_app" -> "pm2.connect"
      [] h = "stop_app" -> "stopApp"
      [] h = "restart_app" -> "restartApp"
      [] h = "reload_app" -> "reloadApp"
      [] h = "git_status" -> "rev-parse-branch"
      [] OTHER -> "describeApp"

\* The first call of a handler that has its processName.
FirstCall(h) ==
    CASE h = "start_app" -> "pm2.connect"
      [] h = "stop_app" -> "stopApp"
      [] h = "restart_app" -> "restartApp"
      [] h = "reload_app" -> "reloadApp"
      [] OTHER -> "describeApp"

\* The progress note git_check and git_pull send before describeApp.
ProgressNote(h, m, processName) ==
    CASE h = "git_check" -> << Reply(m.from, "checking", processName, NoText) >>
      [] h = "git_pull" -> << Reply(m.from, "pulling", processName, NoText) >>
      [] OTHER -> <<>>

\* bot.onText(/\/<cmd>(?:\s+(.+))?/) up to its first await.
ArgHandler(h, m) ==
    IF ~CheckAccess(m) THEN Denied(m)
    ELSE LET processName == ProcessNameOf[m.rest]
         IN  IF processName = <<>>
             THEN Out(<< Reply(m.from, "usage", NoName, Text(h)) >>, {}, {})
             ELSE Out(ProgressNote(h, m, processName),
                      IF h = "start_app" THEN {"startApp", "pm2.connect"} ELSE {FirstCall(h)},
                      { Task(h, m.from, processName, FirstCall(h)) })

Handler(h, m) ==
    CASE h \in {"start", "help"} -> InfoHandler(h, m)
      [] h = "status" -> StatusHandler(h, m)
      [] OTHER -> ArgHandler(h, m)

\* The handlers in the order bot.onText registered them.
HandlerOrder == <<"start", "help", "status", "start_app", "stop_app", "restart_app",
                  "reload_app", "git_status", "git_check", "git_pull">>

\* Whether h's regular expression matches the text "/" cmd rest. None is
\* anchored, so /\/start/ matches "/start_app ..." too; no other command word
\* holds another one, and a rest holds no "/".
Matches(h, m) == h = m.cmd \/ (h = "start" /\ m.cmd = "start_app")

\* The commands that take no argument come without one.
Messages == { m \in [from : Senders, cmd : Cmds, rest : Rests] :
                m.cmd \in ArgCmds \/ m.rest = <<>> }

\* The handlers whose expression matches the text, in registration order.
Matching(m) == SelectSeq(HandlerOrder, LAMBDA h : Matches(h, m))
MatchingOf == [m \in Messages |-> Matching(m)]

\* What two handlers run one after the other did.
Join(a, b) == Out(a.sent \o b.sent, a.calls \cup b.calls, a.spawn \cup b.spawn)

RECURSIVE RunAll(_, _)
RunAll(hs, m) ==
    IF hs = <<>> THEN Out(<<>>, {}, {})
    ELSE Join(Handler(Head(hs), m), RunAll(Tail(hs), m))

\* processUpdate: every registered callback whose expression matches runs, in
\* registration order (onlyFirstMatch is not set).
Dispatch(m) == RunAll(MatchingOf[m], m)

\* What every step of Spec leaves of the relay's observations.
NoRelayObs == event' = NoEvent /\ produced' = <<>>

\* A text message arrives at the polling bot: every matching handler runs up to
\* its first await. The model takes a message in while fewer than MaxTasks
\* handlers are suspended.
Receive(m) ==
    /\ bot # 0
    /\ LET o == Dispatch(m)
       IN  /\ BagCardinality(tasks) < MaxTasks
           /\ tasks' = tasks (+) SetToBag(o.spawn)
           /\ sent' = o.sent
           /\ calls' = o.calls
    /\ step' = [kind |-> "Receive", from |-> m.from, cmd |-> m.cmd, blank |-> Blank(m.rest),
                arg |-> ProcessNameOf[m.rest]]
    /\ result' = NoResult
    /\ NoRelayObs
    /\ UNCHANGED << configVars, connected, relayVars, procStatus, gitVars >>

\* What a step of a resumed handler leaves in the observation variables.
TaskObs(kind, r, s, c, res) ==
    /\ step' = [kind |-> kind, from |-> r.from, cmd |-> r.cmd, blank |-> FALSE, arg |-> r.arg]
    /\ sent' = s
    /\ calls' = c
    /\ result' = res
    /\ NoRelayObs

\* ------------------------------------------------- the supervisor facade
\* The daemon's answer to an operation on a process it does not know.
NotFoundText == "process or namespace not found"
DaemonDownText == "connect ECONNREFUSED"

\* describeApp(processName): the process's record, or None.
NoApp == [name |-> NoName, pm2_env_cwd |-> None]
DescribeApp(p) == IF p \in Known THEN [name |-> p, pm2_env_cwd |-> "cwd"] ELSE NoApp

\* The status an operation of the daemon leaves a process in.
StatusAfter(op) == IF op = "stopApp" THEN "stopped" ELSE "online"

\* The reply of a lifecycle handler.
DoneKind(cmd) ==
    CASE cmd = "start_app" -> "started"
      [] cmd = "stop_app" -> "stopped"
      [] cmd = "restart_app" -> "restarted"
      [] cmd = "reload_app" -> "reloaded"
\* A catch that leaves err.message out of its reply.
FailedReplyBare(r, text) ==
    Reply(r.from, "failed", IF r.cmd \in {"status", "git_check"} THEN NoName ELSE r.arg, NoText)

\* The reply of a handler's catch: the text names the process (not that of
\* /status and /git_check) and ends with err.message.
FailedReply(r, text) ==
    Reply(r.from, "failed", IF r.cmd \in {"status", "git_check"} THEN NoName ELSE r.arg,
          Text(text))

\* await listApps() returns or throws in the /status handler.
ListAppsReturn(r) ==
    /\ r.pc = "listApps"
    /\ \E up \in BOOLEAN :
         TaskObs("ListAppsReturn", r,
                 << IF up THEN Reply(r.from, "status", NoName, NoText)
                    ELSE FailedReply(r, DaemonDownText) >>,
                 {}, Outcome("listApps", up))
    /\ tasks' = Finish(r)
    /\ UNCHANGED << configVars, connected, relayVars, procStatus, gitVars >>

\* pm2.disconnect(): pm2 is the one client object the module imports, and
\* disconnect takes no argument: the client closes what it holds, its
\* connection to the daemon and the bus it launched last.
Disconnect(s) == IF pm2Bus # 0 THEN [s EXCEPT ![pm2Bus] = "closed"] ELSE s

\* startApp: the callback of pm2.connect.
Pm2ConnectCb(r) ==
    /\ r.pc = "pm2.connect"
    /\ \E err \in BOOLEAN :
         IF err
         THEN /\ tasks' = Finish(r)
              /\ connected' = connected
              /\ TaskObs("Pm2ConnectCb", r, << FailedReply(r, DaemonDownText) >>, {},
                         Outcome("pm2.connect", FALSE))
         ELSE /\ tasks' = Resume(r, [r EXCEPT !.pc = "pm2.restart"])
              /\ connected' = TRUE
              /\ TaskObs("Pm2ConnectCb", r, <<>>, {"pm2.restart"}, Outcome("pm2.connect", TRUE))
    /\ UNCHANGED << configVars, relayVars, procStatus, gitVars >>

\* A pm2.restart callback that disconnects only when the restart succeeded.
RestartCbLeaks(err) == IF err THEN << "reject" >> ELSE << "pm2.disconnect", "resolve" >>

\* The callback of pm2.restart, in the order of its statements: it disconnects,
\* then rejects with the error or resolves with the process.
RestartCb(err) == << "pm2.disconnect", IF err THEN "reject" ELSE "resolve" >>

Does(did, what) == \E i \in 1..Len(did) : did[i] = what

\* startApp: the callback of pm2.restart, and the rest of the /start_app handler.
Pm2RestartCb(r) ==
    /\ r.pc = "pm2.restart"
    /\ tasks' = Finish(r)
    /\ LET err == r.arg \notin Known
           did == RestartCb(err)
           off == Does(did, "pm2.disconnect")
       IN  /\ connected' = (IF off THEN FALSE ELSE connected)
           /\ subs' = (IF off THEN Disconnect(subs) ELSE subs)
           /\ procStatus' = (IF err THEN procStatus
                             ELSE [procStatus EXCEPT ![r.arg] = StatusAfter("restart")])
           /\ TaskObs("Pm2RestartCb", r,
                      << IF err THEN FailedReply(r, NotFoundText)
                         ELSE Reply(r.from, DoneKind(r.cmd), r.arg, NoText) >>,
                      IF off THEN {"pm2.disconnect"} ELSE {},
                      Outcome("pm2.restart", ~err) @@ [did |-> did])
    /\ UNCHANGED << configVars, bot, pm2Bus, gitVars >>

\* await stopApp / restartApp / reloadApp returns or throws.
FacadeReturn(r) ==
    /\ r.pc \in {"stopApp", "restartApp", "reloadApp"}
    /\ tasks' = Finish(r)
    /\ \E up \in BOOLEAN :
         IF up /\ r.arg \in Known
         THEN /\ procStatus' = [procStatus EXCEPT ![r.arg] = StatusAfter(r.pc)]
              /\ TaskObs("FacadeReturn", r, << Reply(r.from, DoneKind(r.cmd), r.arg, NoText) >>,
                         {}, Outcome(r.pc, TRUE))
         ELSE /\ procStatus' = procStatus
              /\ TaskObs("FacadeReturn", r,
                         << FailedReply(r, IF up THEN NotFoundText ELSE DaemonDownText) >>,
                         {}, Outcome(r.pc, FALSE))
    /\ UNCHANGED << configVars, connected, relayVars, gitVars >>

\* A /git_pull handler that reloads the process it is about to pull for.
AfterDescribeReloading(cmd) ==
    CASE cmd = "git_status" ->
           [pc |-> "rev-parse-branch",
            calls |-> {"getCurrentGitBranch", "git rev-parse --abbrev-ref HEAD"}]
      [] cmd = "git_check" ->
           [pc |-> "rev-parse-head",
            calls |-> {"checkForUpdates", "getCurrentGitCommit", "git rev-parse --short HEAD"}]
      [] cmd = "git_pull" ->
           [pc |-> "rev-parse-branch",
            calls |-> {"reloadApp", "pullUpdates", "getCurrentGitBranch",
                       "git rev-parse --abbrev-ref HEAD"}]

\* The Synchronizer call a git handler makes once describeApp found the process.
AfterDescribe(cmd) ==
    CASE cmd = "git_status" ->
           [pc |-> "rev-parse-branch",
            calls |-> {"getCurrentGitBranch", "git rev-parse --abbrev-ref HEAD"}]
      [] cmd = "git_check" ->
           [pc |-> "rev-parse-head",
            calls |-> {"checkForUpdates", "getCurrentGitCommit", "git rev-parse --short HEAD"}]
      [] cmd = "git_pull" ->
           [pc |-> "rev-parse-branch",
            calls |-> {"pullUpdates", "getCurrentGitBranch", "git rev-parse --abbrev-ref HEAD"}]

\* await describeApp(processName) returns in a git handler, or throws.
DescribeAppReturn(r) ==
    /\ r.pc = "describeApp"
    /\ \E up \in BOOLEAN :
         IF ~up
         THEN /\ tasks' = Finish(r)
              /\ TaskObs("DescribeAppReturn", r, << FailedReply(r, DaemonDownText) >>, {},
                         Outcome("describeApp", FALSE))
         ELSE IF DescribeApp(r.arg) = NoApp
         THEN /\ tasks' = Finish(r)
              /\ TaskObs("DescribeAppReturn", r,
                         << Reply(r.from, "not_found", r.arg, NoText) >>, {},
                         Outcome("describeApp", TRUE))
         ELSE /\ tasks' = Resume(r, [r EXCEPT !.pc = AfterDescribe(r.cmd).pc])
              /\ TaskObs("DescribeAppReturn", r, <<>>, AfterDescribe(r.cmd).calls,
                         Outcome("describeApp", TRUE))
    /\ UNCHANGED << configVars, connected, relayVars, procStatus, gitVars >>

\* ------------------------------------------------------- the synchronizer
\* Whether an execa of a git network command (fetch, pull) ever settles: it
\* does when the command exits, or when a timeout is set to kill it.
Settles == ~gitHangs \/ ExecaTimeout > 0

\* getCurrentGitBranch without its catch's null: a name whatever git says.
GetCurrentGitBranchUnchecked == CheckedOut

\* git rev-parse --abbrev-ref HEAD in getCurrentGitBranch: null when it fails.
GetCurrentGitBranch == IF isRepo THEN CheckedOut ELSE None
\* git rev-parse --short HEAD in getCurrentGitCommit: null when it fails.
GetCurrentGitCommit == IF isRepo THEN ShortHash(head) ELSE None

\* `${commitsBehind} commit${commitsBehind > 1 ? 's' : ''} behind`
BehindMessage(n) == [n |-> n, word |-> IF n > 1 THEN "commits" ELSE "commit", text |-> "behind"]

\* The objects checkForUpdates returns.
CheckUnable == [hasUpdates |-> FALSE, message |-> Text("Unable to check for updates")]
CheckUpToDate(cur, rem) ==
    [hasUpdates |-> FALSE, message |-> Text("Up to date"),
     currentCommit |-> cur, remoteCommit |-> rem]
CheckBehind(cur, rem, n) ==
    [hasUpdates |-> TRUE, message |-> BehindMessage(n),
     currentCommit |-> cur, remoteCommit |-> rem, commitsBehind |-> n]
CheckError ==
    [hasUpdates |-> FALSE, message |-> Text("Error checking for updates"),
     error |-> "Command failed: git rev-list"]

\* checkForUpdates with && for ||: it gives up only when both revisions are null.
CheckCompareBoth(cur, rem) ==
    IF cur = None /\ rem = None THEN "unable"
    ELSE IF cur = rem THEN "same"
    ELSE "count"

\* checkForUpdates once both revisions are in: what it returns, or that it
\* goes on to count the commits.
CheckCompare(cur, rem) ==
    IF cur = None \/ rem = None THEN "unable"
    ELSE IF cur = rem THEN "same"
    ELSE "count"

\* The /git_check handler's reply to the object checkForUpdates returned.
GitCheckReply(r, us) ==
    IF "currentCommit" \notin DOMAIN us \/ "remoteCommit" \notin DOMAIN us
    THEN Reply(r.from, "info", NoName, us.message)
    ELSE IF us.hasUpdates
         THEN Reply(r.from, "updates_available", r.arg, us.message)
         ELSE Reply(r.from, "up_to_date", r.arg, NoText)

CheckResult(r, rem, us) ==
    [op |-> "checkForUpdates", cur |-> r.cur, rem |-> rem, value |-> us]

\* checkForUpdates returns us to the /git_check handler, which replies.
GitCheckDone(kind, r, rem, us) ==
    /\ tasks' = Finish(r)
    /\ TaskObs(kind, r, << GitCheckReply(r, us) >>, {}, CheckResult(r, rem, us))

\* getRemoteGitCommit returns rem to checkForUpdates, which returns or starts
\* git rev-list --count cur..rem.
RemoteCommitIn(kind, r, rem) ==
    CASE CheckCompare(r.cur, rem) = "unable" -> GitCheckDone(kind, r, rem, CheckUnable)
      [] CheckCompare(r.cur, rem) = "same" ->
           GitCheckDone(kind, r, rem, CheckUpToDate(r.cur, rem))
      [] OTHER ->
           /\ tasks' = Resume(r, [r EXCEPT !.rem = rem, !.pc = "rev-list"])
           /\ TaskObs(kind, r, <<>>, {"git rev-list --count"}, NoResult)

\* A catch of pullUpdates that reports the failed pull as a success.
PullFailedUnnoticed ==
    [success |-> TRUE, message |-> Text("Successfully pulled updates"),
     error |-> "Command failed: git pull", output |-> "stderr"]

\* The objects pullUpdates returns.
PullNoBranch == [success |-> FALSE, message |-> Text("Unable to determine current branch")]
PullOk == [success |-> TRUE, message |-> Text("Successfully pulled updates"), output |-> "stdout"]
PullFailed ==
    [success |-> FALSE, message |-> Text("Failed to pull updates"),
     error |-> "Command failed: git pull", output |-> "stderr"]

PullResult(value, before) ==
    [op |-> "pullUpdates", value |-> value, headBefore |-> before, remote |-> remoteTip]

\* The /git_pull handler's reply to a pull that did not succeed.
PullFailedReply(r, res) == Reply(r.from, "pull_failed", r.arg, res.message)

\* A pull of the main branch whatever is checked out.
PullArgMain(b) == "main"

\* The branch in git pull origin <branch> and in origin/<branch>: the one
\* getCurrentGitBranch returned to the function.
PullArg(b) == b
OriginRef(b) == b
\* The git invocation a step starts, with the branch in its arguments.
Invoked(cmd, b) == [op |-> cmd, branch |-> b]

\* git rev-parse --abbrev-ref HEAD exits: getCurrentGitBranch returns to the
\* /git_status handler, to getRemoteGitCommit or to pullUpdates.
RevParseBranchExit(r) ==
    /\ r.pc = "rev-parse-branch"
    /\ LET name == GetCurrentGitBranch
       IN  CASE r.cmd = "git_status" ->
                  /\ tasks' = Resume(r, [r EXCEPT !.br = name, !.pc = "rev-parse-head"])
                  /\ TaskObs("RevParseBranchExit", r, <<>>,
                             {"getCurrentGitCommit", "git rev-parse --short HEAD"}, NoResult)
             [] r.cmd = "git_check" ->
                  IF name = None
                  THEN RemoteCommitIn("RevParseBranchExit", r, None)
                  ELSE /\ tasks' = Resume(r, [r EXCEPT !.br = name, !.pc = "fetch"])
                       /\ TaskObs("RevParseBranchExit", r, <<>>, {"git fetch"}, NoResult)
             [] r.cmd = "git_pull" ->
                  IF name = None
                  THEN /\ tasks' = Finish(r)
                       /\ TaskObs("RevParseBranchExit", r, << PullFailedReply(r, PullNoBranch) >>,
                                  {}, PullResult(PullNoBranch, head))
                  ELSE /\ tasks' = Resume(r, [r EXCEPT !.br = name, !.pc = "pull"])
                       /\ TaskObs("RevParseBranchExit", r, <<>>, {"git pull origin"},
                                  Invoked("git pull origin", PullArg(name)))
    /\ UNCHANGED << configVars, connected, relayVars, procStatus, gitVars >>

\* git rev-parse --short HEAD exits: getCurrentGitCommit returns to the
\* /git_status handler, to checkForUpdates or to the /git_pull handler.
RevParseHeadExit(r) ==
    /\ r.pc = "rev-parse-head"
    /\ LET commit == GetCurrentGitCommit
       IN  CASE r.cmd = "git_status" ->
                  /\ tasks' = Finish(r)
                  /\ TaskObs("RevParseHeadExit", r,
                             << IF r.br = None /\ commit = None
                                THEN Reply(r.from, "not_repo", r.arg, NoText)
                                ELSE Reply(r.from, "git_status", r.arg, Text(commit)) >>,
                             {}, NoResult)
             [] r.cmd = "git_check" ->
                  /\ tasks' = Resume(r, [r EXCEPT !.cur = commit, !.pc = "rev-parse-branch",
                                                  !.w = << head, remoteTip >>])
                  /\ TaskObs("RevParseHeadExit", r, <<>>,
                             {"getRemoteGitCommit", "getCurrentGitBranch",
                              "git rev-parse --abbrev-ref HEAD"}, NoResult)
             [] r.cmd = "git_pull" ->
                  /\ tasks' = Finish(r)
                  /\ TaskObs("RevParseHeadExit", r,
                             << Reply(r.from, "pulled", r.arg, Text(commit)) >>, {},
                             [op |-> "getCurrentGitCommit", value |-> commit])
    /\ UNCHANGED << configVars, connected, relayVars, procStatus, gitVars >>

\* A fetch that moves origin/<branch> one commit at a time.
FetchedNext(o, tip) == IF o \in Anc(tip) /\ o # tip /\ o + 1 \in Anc(tip) THEN o + 1 ELSE tip

\* What git fetch leaves in origin/<branch>: the branch's commit on the remote.
Fetched(o, tip) == tip


\* A getRemoteGitCommit that goes on to origin/<branch> after a failed fetch.
AfterFetchAnyway(ok) == "rev-parse-origin"

\* getRemoteGitCommit when git fetch exits: a failure throws into the catch,
\* which returns null; otherwise git rev-parse --short origin/<branch> is next.
AfterFetch(ok) == IF ok THEN "rev-parse-origin" ELSE "return"

\* git fetch exits in getRemoteGitCommit: it updates origin/<branch>, or fails
\* (the network, or the kill of a timeout).
FetchExit(r) ==
    /\ r.pc = "fetch"
    /\ Settles
    /\ \E ok \in BOOLEAN :
         /\ gitHangs => ~ok
         /\ origin' = (IF ok THEN Fetched(origin, remoteTip) ELSE origin)
         /\ IF AfterFetch(ok) = "rev-parse-origin"
            THEN /\ tasks' = Resume(r, [r EXCEPT !.pc = "rev-parse-origin"])
                 /\ TaskObs("FetchExit", r, <<>>, {"git rev-parse --short origin"},
                            Invoked("git rev-parse --short origin", OriginRef(r.br)) @@ Exit(ok))
            ELSE RemoteCommitIn("FetchExit", r, None)
    /\ UNCHANGED << configVars, connected, relayVars, procStatus, isRepo, gitHangs, head, remoteTip,
                    branch >>

\* git rev-parse --short origin/<branch> exits in getRemoteGitCommit.
RevParseOriginExit(r) ==
    /\ r.pc = "rev-parse-origin"
    /\ RemoteCommitIn("RevParseOriginExit", r, IF isRepo THEN ShortHash(origin) ELSE None)
    /\ UNCHANGED << configVars, connected, relayVars, procStatus, gitVars >>

\* git rev-list --count exits in checkForUpdates: the count, or the catch.
RevListExit(r) ==
    /\ r.pc = "rev-list"
    /\ \E ok \in BOOLEAN :
         /\ (r.cur = None \/ r.rem = None) => ~ok
         /\ LET us == IF ok THEN CheckBehind(r.cur, r.rem, RevListCount(r.cur, r.rem))
                       ELSE CheckError
            IN  /\ tasks' = Finish(r)
                /\ TaskObs("RevListExit", r, << GitCheckReply(r, us) >>, {},
                           CheckResult(r, r.rem, us) @@ Exit(ok))
    /\ UNCHANGED << configVars, connected, relayVars, procStatus, gitVars >>

\* A pull that fetches and reports success without merging.
PulledNothing(local, remote) == local

\* What git pull origin <branch> leaves checked out when it succeeds: nothing
\* new when the remote commit is already in the history, the remote commit
\* when the branch fast-forwards, a merge commit when the two diverged.
Pulled(local, remote) ==
    IF remote \in Anc(local) THEN local
    ELSE IF local \in Anc(remote) THEN remote
    ELSE MergeCommit(local, remote)

\* git pull origin <branch> exits in pullUpdates: success, or a failure (the
\* network, a conflict, the kill of a timeout) that leaves the branch alone.
PullExit(r) ==
    /\ r.pc = "pull"
    /\ Settles
    /\ \E ok \in BOOLEAN :
         /\ gitHangs => ~ok
         /\ IF ok
            THEN /\ origin' = remoteTip
                 /\ head' = Pulled(head, remoteTip)
                 /\ tasks' = Resume(r, [r EXCEPT !.pc = "rev-parse-head"])
                 /\ TaskObs("PullExit", r, <<>>,
                            {"getCurrentGitCommit", "git rev-parse --short HEAD"},
                            PullResult(PullOk, head) @@ Exit(ok))
            ELSE /\ origin' = origin
                 /\ head' = head
                 /\ tasks' = Finish(r)
                 /\ TaskObs("PullExit", r, << PullFailedReply(r, PullFailed) >>, {},
                            PullResult(PullFailed, head) @@ Exit(ok))
    /\ UNCHANGED << configVars, connected, relayVars, procStatus, isRepo, gitHangs, remoteTip, branch >>

\* Someone checks out the other branch in the working directory.
Checkout ==
    /\ isRepo
    /\ branch' = CHOOSE b \in Branches : b # branch
    /\ step' = [NoStep EXCEPT !.kind = "Checkout"]
    /\ sent' = <<>>
    /\ calls' = {}
    /\ result' = NoResult
    /\ NoRelayObs
    /\ UNCHANGED << configVars, connected, relayVars, tasks, procStatus, isRepo, gitHangs, head, origin,
                    remoteTip >>

\* Someone pushes the next commit to the remote branch.
RemotePush ==
    /\ isRepo
    /\ remoteTip \in {1, 2}
    /\ remoteTip' = remoteTip + 1
    /\ step' = [NoStep EXCEPT !.kind = "RemotePush"]
    /\ sent' = <<>>
    /\ calls' = {}
    /\ result' = NoResult
    /\ NoRelayObs
    /\ UNCHANGED << configVars, connected, relayVars, tasks, procStatus, isRepo, gitHangs, head, origin,
                    branch >>

\* ------------------------------------------------------- the event relay
\* The records of the bus's process:event stream: the event, the process's
\* name (NoName when the record has none) and its exit code.
EventKinds == {"exit", "stop", "restart", "online", "delete"}
ApiName == <<"a", "p", "i">>
UnknownName == <<"Unknown">>
Events == [event : EventKinds, name : {ApiName, NoName}, exit_code : {0, 137}]

\* The listener without the exit-code test: every exit is a crash.
ClassifyAnyExit(e) ==
    CASE e.event = "exit" -> "crash"
      [] e.event = "stop" -> "stop"
      [] e.event = "restart" -> "restart"
      [] e.event = "online" -> "online"
      [] OTHER -> None

\* The switch of the process:event listener: which alert it builds, None for none.
Classify(e) ==
    CASE e.event = "exit" -> IF e.exit_code # 0 THEN "crash" ELSE None
      [] e.event = "stop" -> "stop"
      [] e.event = "restart" -> "restart"
      [] e.event = "online" -> "online"
      [] OTHER -> None

\* const appName = proc?.name || 'Unknown'
AppName(e) == IF e.name = NoName THEN UnknownName ELSE e.name

\* The alertMessage of one listener: the kind, the app and, for a crash, the exit code.
Alert(e) ==
    [kind |-> Classify(e), name |-> AppName(e),
     detail |-> IF Classify(e) = "crash" THEN [text |-> "Exit Code", code |-> e.exit_code]
                ELSE NoText]

\* sendAlert(message): the bot.sendMessage it makes, if any.
SendAlert(a) ==
    LET chatId == GetAlertChatId
    IN  IF bot # 0 /\ chatId # 0
        THEN << Reply(chatId, a.kind, a.name, a.detail) >>
        ELSE <<>>

\* The subscriptions whose listener is on a bus that is open.
Live == { n \in 1..MaxStarts : subs[n] = "subscribed" }

RECURSIVE Listeners(_, _)
\* Each live listener in turn takes the event: what they built and what they sent.
Listeners(ns, e) ==
    IF ns = {} THEN [produced |-> <<>>, sent |-> <<>>]
    ELSE LET n == CHOOSE x \in ns : \A y \in ns : x <= y
             here == IF Classify(e) # None
                     THEN [produced |-> << Alert(e) >>, sent |-> SendAlert(Alert(e))]
                     ELSE [produced |-> <<>>, sent |-> <<>>]
             later == Listeners(ns \ {n}, e)
         IN  [produced |-> here.produced \o later.produced, sent |-> here.sent \o later.sent]

\* What a step of the relay leaves in the observation variables.
RelayObs(kind, n) ==
    /\ step' = [NoStep EXCEPT !.kind = kind, !.from = n]
    /\ calls' = {}
    /\ result' = NoResult

\* startTelegramBot
StartTelegramBot ==
    /\ \E n \in 1..MaxStarts : subs[n] = "none"
    /\ LET n == CHOOSE x \in 1..MaxStarts :
                  subs[x] = "none" /\ \A y \in 1..MaxStarts : subs[y] = "none" => x <= y
       IN  IF ~enabled
           THEN /\ UNCHANGED relayVars
                /\ RelayObs("startTelegramBot", 0)
           ELSE /\ bot' = n
                /\ subs' = [subs EXCEPT ![n] = "connecting"]
                /\ pm2Bus' = pm2Bus
                /\ RelayObs("startTelegramBot", n)
    /\ sent' = <<>>
    /\ event' = NoEvent
    /\ produced' = <<>>
    /\ UNCHANGED << configVars, connected, tasks, procStatus, gitVars >>

\* A pm2.connect callback that leaves a failed subscription connecting.
BusConnectedRetry(err) == IF err THEN "connecting" ELSE "launching"

\* Where the callback of pm2.connect leaves the subscription: it returns on an
\* error, and calls pm2.launchBus otherwise.
BusConnected(err) == IF err THEN "failed" ELSE "launching"

\* subscribeToPm2Bus: the callback of pm2.connect.
BusConnectCb(n) ==
    /\ subs[n] = "connecting"
    /\ \E err \in BOOLEAN :
         /\ subs' = [subs EXCEPT ![n] = BusConnected(err)]
         /\ connected' = (IF err THEN connected ELSE TRUE)
    /\ RelayObs("BusConnectCb", n)
    /\ sent' = <<>>
    /\ event' = NoEvent
    /\ produced' = <<>>
    /\ UNCHANGED << configVars, bot, pm2Bus, tasks, procStatus, gitVars >>

\* subscribeToPm2Bus: the callback of pm2.launchBus.
LaunchBusCb(n) ==
    /\ subs[n] = "launching"
    /\ \E err \in BOOLEAN :
         IF err
         THEN /\ subs' = [Disconnect(subs) EXCEPT ![n] = "failed"]
              /\ connected' = FALSE
              /\ pm2Bus' = pm2Bus
         ELSE /\ subs' = [subs EXCEPT ![n] = "subscribed"]
              /\ connected' = connected
              /\ pm2Bus' = n
    /\ RelayObs("LaunchBusCb", n)
    /\ sent' = <<>>
    /\ event' = NoEvent
    /\ produced' = <<>>
    /\ UNCHANGED << configVars, bot, tasks, procStatus, gitVars >>

\* bus.on('error'): the error is logged.
BusError(n) ==
    /\ subs[n] = "subscribed"
    /\ RelayObs("BusError", n)
    /\ sent' = <<>>
    /\ event' = NoEvent
    /\ produced' = <<>>
    /\ UNCHANGED << configVars, connected, relayVars, tasks, procStatus, gitVars >>

\* The daemon publishes one event: every open bus hands it to its listener.
Pm2Event(e) ==
    /\ event' = e
    /\ produced' = Listeners(Live, e).produced
    /\ sent' = Listeners(Live, e).sent
    /\ RelayObs("Pm2Event", 0)
    /\ UNCHANGED << configVars, connected, relayVars, tasks, procStatus, gitVars >>

\* stopTelegramBot
StopTelegramBot ==
    /\ bot' = 0
    /\ IF pm2Bus # 0
       THEN /\ subs' = [subs EXCEPT ![pm2Bus] = "closed"]
            /\ pm2Bus' = 0
       ELSE UNCHANGED << subs, pm2Bus >>
    /\ RelayObs("stopTelegramBot", 0)
    /\ sent' = <<>>
    /\ event' = NoEvent
    /\ produced' = <<>>
    /\ UNCHANGED << configVars, connected, tasks, procStatus, gitVars >>

\* ---------------------------------------------------------- specification
\* The history of checkForUpdates: the commits of the branch and of the remote
\* when the call read HEAD (w), the step it returned in (how) and whether git
\* rev-list failed (err), what it returned (count is -1 for none), whether
\* neither commit changed during the call (clean), and how many calls in a row
\* were clean, over the same commits and ended the same way (seq, up to 2).
NoCheck ==
    [w |-> << 0, 0 >>, how |-> None, err |-> FALSE, hasUpdates |-> FALSE, count |-> -1,
     clean |-> FALSE, seq |-> 0]

\* Two returns of checkForUpdates that the commits and the git client's
\* failures do not tell apart.
Alike(a, b) ==
    /\ a.clean /\ b.clean
    /\ a.w = b.w /\ a.how = b.how /\ a.err = b.err

\* What the step of handler r leaves in the history.
Record(r) ==
    lastCheck' =
      IF result'.op = "checkForUpdates"
      THEN LET v == result'.value
               new == [w |-> r.w, how |-> step'.kind, err |-> "error" \in DOMAIN v,
                       hasUpdates |-> v.hasUpdates,
                       count |-> IF "commitsBehind" \in DOMAIN v THEN v.commitsBehind ELSE -1,
                       clean |-> r.w = << head', remoteTip' >>, seq |-> 1]
           IN  IF Alike(lastCheck, new) THEN [new EXCEPT !.seq = 2] ELSE new
      ELSE lastCheck

\* What holds after startTelegramBot, whatever the working directory: the bot
\* polls, its bus is subscribed and no handler is suspended.
Started ==
    /\ enabled = TRUE
    /\ bot = 1
    /\ pm2Bus = 1
    /\ subs = [n \in 1..MaxStarts |-> IF n = 1 THEN "subscribed" ELSE "none"]
    /\ connected = TRUE
    /\ tasks = EmptyBag
    /\ step = NoStep
    /\ sent = <<>>
    /\ calls = {}
    /\ result = NoResult
    /\ event = NoEvent
    /\ produced = <<>>
    /\ lastCheck = NoCheck

\* The dispatcher: every sender, every command and every allowlist, over a
\* working directory that is one commit behind its remote.
Init ==
    /\ Started
    /\ allowlist \in Allowlists
    /\ procStatus \in [Known -> Statuses]
    /\ isRepo = TRUE
    /\ gitHangs = FALSE
    /\ head = 1
    /\ origin = 1
    /\ remoteTip = 2
    /\ branch = "main"

FacadeStep(r) ==
    \/ ListAppsReturn(r)
    \/ Pm2ConnectCb(r)
    \/ Pm2RestartCb(r)
    \/ FacadeReturn(r)

GitStep(r) ==
    \/ DescribeAppReturn(r)
    \/ RevParseBranchExit(r)
    \/ RevParseHeadExit(r)
    \/ FetchExit(r)
    \/ RevParseOriginExit(r)
    \/ RevListExit(r)
    \/ PullExit(r)

TaskStep(r) == FacadeStep(r) \/ GitStep(r)

Next ==
    \/ \E m \in Messages : Receive(m) /\ UNCHANGED lastCheck
    \/ \E r \in InFlight : FacadeStep(r) /\ UNCHANGED lastCheck
    \/ \E r \in InFlight : GitStep(r) /\ UNCHANGED lastCheck

Spec == Init /\ [][Next]_vars

\* The synchronizer: the git commands of an allowed sender on the known
\* process, over every working directory: not a repository, behind, ahead of
\* or diverged from its remote, with a git client that may hang, and a remote
\* that moves.
GitMessages == { m \in Messages : m.from = 1 /\ m.cmd \in GitCmds /\ ProcessName(m.rest) \in Known }

InitGit ==
    /\ Started
    /\ allowlist = <<2, 1>>
    /\ procStatus = [p \in Known |-> "online"]
    /\ isRepo \in BOOLEAN
    /\ gitHangs \in BOOLEAN
    /\ head \in (IF isRepo THEN {1, 2, 4} ELSE {1})
    /\ origin = 1
    /\ remoteTip \in (IF isRepo THEN {1, 2} ELSE {1})
    /\ branch = "main"

NextGit ==
    \/ \E m \in GitMessages : Receive(m) /\ UNCHANGED lastCheck
    \/ \E r \in InFlight : GitStep(r) /\ UNCHANGED lastCheck
    \/ RemotePush /\ UNCHANGED lastCheck

SpecGit == InitGit /\ [][NextGit]_vars

\* checkForUpdates called again and again, with pulls and pushes in between,
\* and a history of what it returned.
CheckMessages == { m \in GitMessages : m.cmd \in {"git_check", "git_pull"} }

InitTwice ==
    /\ Started
    /\ allowlist = <<2, 1>>
    /\ procStatus = [p \in Known |-> "online"]
    /\ isRepo \in BOOLEAN
    /\ gitHangs = FALSE
    /\ head \in (IF isRepo THEN {1, 2} ELSE {1})
    /\ origin = 1
    /\ remoteTip \in (IF isRepo THEN {1, 2} ELSE {1})
    /\ branch = "main"

NextTwice ==
    \/ \E m \in CheckMessages : Receive(m) /\ UNCHANGED lastCheck
    \/ \E r \in InFlight : GitStep(r) /\ Record(r)
    \/ RemotePush /\ UNCHANGED lastCheck

SpecTwice == InitTwice /\ [][NextTwice]_vars

\* The synchronizer over a working directory whose branch someone may switch
\* while a command is in flight.
InitBranch ==
    /\ Started
    /\ allowlist = <<2, 1>>
    /\ procStatus = [p \in Known |-> "online"]
    /\ isRepo \in BOOLEAN
    /\ gitHangs = FALSE
    /\ head = 1
    /\ origin = 1
    /\ remoteTip \in (IF isRepo THEN {1, 2} ELSE {1})
    /\ branch \in (IF isRepo THEN Branches ELSE {"main"})

NextBranch ==
    \/ \E m \in GitMessages : Receive(m) /\ UNCHANGED lastCheck
    \/ \E r \in InFlight : GitStep(r) /\ UNCHANGED lastCheck
    \/ Checkout /\ UNCHANGED lastCheck

SpecBranch == InitBranch /\ [][NextBranch]_vars

\* The relay: the module as loaded, before startTelegramBot.
InitRelay ==
    /\ allowlist \in Allowlists
    /\ enabled \in BOOLEAN
    /\ bot = 0
    /\ pm2Bus = 0
    /\ subs = [n \in 1..MaxStarts |-> "none"]
    /\ connected = FALSE
    /\ tasks = EmptyBag
    /\ procStatus = [p \in Known |-> "online"]
    /\ isRepo = TRUE
    /\ gitHangs = FALSE
    /\ head = 1
    /\ origin = 1
    /\ remoteTip = 1
    /\ branch = "main"
    /\ step = NoStep
    /\ sent = <<>>
    /\ calls = {}
    /\ result = NoResult
    /\ event = NoEvent
    /\ produced = <<>>
    /\ lastCheck = NoCheck

NextRelay ==
    \/ StartTelegramBot /\ UNCHANGED lastCheck
    \/ StopTelegramBot /\ UNCHANGED lastCheck
    \/ \E n \in 1..MaxStarts : BusConnectCb(n) /\ UNCHANGED lastCheck
    \/ \E n \in 1..MaxStarts : LaunchBusCb(n) /\ UNCHANGED lastCheck
    \/ \E n \in 1..MaxStarts : BusError(n) /\ UNCHANGED lastCheck
    \/ \E e \in Events : Pm2Event(e) /\ UNCHANGED lastCheck

SpecRelay == InitRelay /\ [][NextRelay]_vars

\* The relay's subscriptions and the commands of an allowed sender, one
\* command at a time; the bot is stopped between two commands only.
InitRetry == InitRelay /\ enabled /\ allowlist = <<2, 1>>

NextRetry ==
    \/ StartTelegramBot /\ UNCHANGED lastCheck
    \/ StopTelegramBot /\ tasks = EmptyBag /\ UNCHANGED lastCheck
    \/ \E n \in 1..MaxStarts : BusConnectCb(n) /\ UNCHANGED lastCheck
    \/ \E n \in 1..MaxStarts : LaunchBusCb(n) /\ UNCHANGED lastCheck
    \/ \E n \in 1..MaxStarts : BusError(n) /\ UNCHANGED lastCheck
    \/ \E m \in Messages : m.from = 1 /\ tasks = EmptyBag /\ Receive(m) /\ UNCHANGED lastCheck
    \/ \E r \in InFlight : TaskStep(r) /\ UNCHANGED lastCheck

SpecRetry == InitRetry /\ [][NextRetry]_vars

\* The relay's subscriptions, which may fail, next to the commands of an
\* allowed sender on the known process, several in flight.
TogetherMessages == { m \in Messages : m.from = 1 /\ m.rest = <<" ", "a", " ">> }

NextTogether ==
    \/ StartTelegramBot /\ UNCHANGED lastCheck
    \/ \E n \in 1..MaxStarts : BusConnectCb(n) /\ UNCHANGED lastCheck
    \/ \E n \in 1..MaxStarts : LaunchBusCb(n) /\ UNCHANGED lastCheck
    \/ \E n \in 1..MaxStarts : BusError(n) /\ UNCHANGED lastCheck
    \/ \E m \in TogetherMessages : Receive(m) /\ UNCHANGED lastCheck
    \/ \E r \in InFlight : TaskStep(r) /\ UNCHANGED lastCheck

SpecTogether == InitRetry /\ [][NextTogether]_vars

\* ------------------------------------------------------------------ claims
Listed(u) == \E i \in 1..Len(allowlist) : allowlist[i] = u
\* The sender failed the check: the allowlist is not empty and does not hold it.
Refused(u) == allowlist # <<>> /\ ~Listed(u)
DenialTo(u) == Reply(u, "denied", NoName, NoText)
Kinds(q) == { q[i].kind : i \in 1..Len(q) }

\* C1: a command of a sender that a non-empty allowlist does not hold gets the
\* denial message from every handler it reaches and issues no Facade and no
\* Synchronizer call; no handler is ever suspended, and no step ever taken or
\* call issued, on behalf of such a sender; with the empty allowlist no sender
\* is denied.
C1_AllowlistGate ==
    /\ \A r \in InFlight : ~Refused(r.from)
    /\ step.kind \notin {"init", "Receive"} => ~Refused(step.from)
    /\ calls # {} => ~Refused(step.from)
    /\ (step.kind = "Receive" /\ Refused(step.from)) =>
          /\ sent # <<>>
          /\ \A i \in 1..Len(sent) : sent[i] = DenialTo(step.from)
          /\ calls = {}
    /\ (step.kind = "Receive" /\ allowlist = <<>>) => "denied" \notin Kinds(sent)

\* A refused sender's /git_pull is denied while another command is in flight.
C1_Witness ==
    /\ step.kind = "Receive" /\ step.cmd = "git_pull" /\ step.arg \in Known
    /\ Refused(step.from)
    /\ sent = << DenialTo(step.from) >>
    /\ BagCardinality(tasks) = 1

\* The calls that change a process or a working directory.
MutatingCalls ==
    {"startApp", "pm2.restart", "stopApp", "restartApp", "reloadApp",
     "pullUpdates", "git pull origin"}
SynchronizerCalls ==
    {"getCurrentGitBranch", "getCurrentGitCommit", "getRemoteGitCommit",
     "checkForUpdates", "pullUpdates", "git rev-parse --abbrev-ref HEAD",
     "git rev-parse --short HEAD", "git fetch", "git rev-parse --short origin",
     "git rev-list --count", "git pull origin"}
\* The step serves a command on an identifier the supervisor does not know.
OnUnknown == step.cmd \in ArgCmds /\ step.arg # NoName /\ step.arg \notin Known
\* The replies that end a command (not the progress notes, not /start's text).
Outcomes(q) == Kinds(q) \ {"checking", "pulling", "welcome"}

\* C2 as stated: on an unknown identifier every command that takes one, the
\* lifecycle commands included, issues no supervisor start/stop/restart/reload
\* and no pull, and ends with the not-found message.
C2_UnknownNeverMutates ==
    (OnUnknown /\ ~Refused(step.from)) =>
        /\ calls \cap MutatingCalls = {}
        /\ Outcomes(sent) \subseteq {"not_found"}

\* C2, amended: on an unknown identifier describeApp returns None; git_status,
\* git_check and git_pull issue no mutating and no Synchronizer call and end
\* with the not-found message (with the failure message when describeApp
\* throws instead of returning); start_app, stop_app, restart_app and reload_app
\* hand the identifier to the supervisor and end with the failure message that
\* carries the supervisor's error text; and no step of such a command changes
\* a process's status or the working directory.
C2_UnknownIdentifier ==
    /\ [](OnUnknown /\ ~Refused(step.from) =>
            /\ DescribeApp(step.arg) = NoApp
            /\ step.cmd \in GitCmds =>
                 /\ calls \cap (MutatingCalls \cup SynchronizerCalls) = {}
                 /\ step.kind = "Receive" => Outcomes(sent) = {}
                 /\ step.kind = "DescribeAppReturn" =>
                      IF result.exit = 0 THEN Outcomes(sent) = {"not_found"}
                      ELSE sent = << FailedReply([from |-> step.from, cmd |-> step.cmd,
                                                  arg |-> step.arg], DaemonDownText) >>
            /\ step.cmd \in LifecycleCmds =>
                 /\ step.kind = "Receive" => calls \cap MutatingCalls # {}
                 /\ \A i \in 1..Len(sent) :
                      sent[i].kind # "welcome" =>
                        /\ sent[i].kind = "failed"
                        /\ sent[i].name = step.arg
                        /\ sent[i].detail.text \in {NotFoundText, DaemonDownText})
    /\ [][(step'.cmd \in ArgCmds /\ step'.arg \notin Known) =>
            (procStatus' = procStatus /\ head' = head /\ origin' = origin)]_vars

\* /git_pull on the unknown process ends with the not-found message.
C2_Witness ==
    /\ step.kind = "DescribeAppReturn" /\ step.cmd = "git_pull"
    /\ OnUnknown
    /\ Kinds(sent) = {"not_found"}

\* C3: when the text after the command word of start_app, stop_app,
\* restart_app, reload_app, git_status, git_check or git_pull is missing or
\* white space only, the handler (of a sender that passes the allowlist) sends
\* the usage reminder of that command, once, and issues no call at all.
C3_MissingArgument ==
    (step.kind = "Receive" /\ step.cmd \in ArgCmds /\ step.blank /\ ~Refused(step.from)) =>
        /\ calls = {}
        /\ Outcomes(sent) = {"usage"}
        /\ Cardinality({ i \in 1..Len(sent) : sent[i].kind = "usage" }) = 1
        /\ \A i \in 1..Len(sent) :
             sent[i].kind = "usage" => sent[i] = Reply(step.from, "usage", NoName, Text(step.cmd))

\* /git_pull without a process name is answered with the usage reminder.
C3_Witness ==
    /\ step.kind = "Receive" /\ step.cmd = "git_pull" /\ step.blank
    /\ ~Refused(step.from)
    /\ Kinds(sent) = {"usage"}

\* checkForUpdates returned in this step, with both revisions resolved.
Checked == result.op = "checkForUpdates"
Resolved == Checked /\ result.cur # None /\ result.rem # None
HasField(v, f) == f \in DOMAIN v
\* The divergence count of the returned status: 0 when the status carries none.
CountOf(v) == IF HasField(v, "commitsBehind") THEN v.commitsBehind ELSE 0

\* C4: the divergence count checkForUpdates returns is never negative, it is
\* 0 when currentRevision equals remoteRevision and at least 1 when they differ.
C4_CountZeroIffEqual ==
    (Resolved /\ HasField(result.value, "currentCommit")) =>
        /\ CountOf(result.value) >= 0
        /\ (result.cur = result.rem) <=> (CountOf(result.value) = 0)

\* The status has hasUpdates=false and the message, and neither revisions nor a count.
Bare(v, text) ==
    /\ ~v.hasUpdates
    /\ v.message = Text(text)
    /\ ~HasField(v, "currentCommit") /\ ~HasField(v, "remoteCommit")
    /\ ~HasField(v, "commitsBehind")

\* The first two cases of C5: a revision that is None gives "Unable to check
\* for updates" with no revisions, no count and no git rev-list; two equal
\* revisions give hasUpdates=false and "Up to date".
C5_UnableOrUpToDate ==
    /\ (Checked /\ (result.cur = None \/ result.rem = None)) =>
          /\ Bare(result.value, "Unable to check for updates")
          /\ step.kind # "RevListExit"
          /\ "git rev-list --count" \notin calls
    /\ (Resolved /\ result.cur = result.rem) =>
          /\ ~result.value.hasUpdates
          /\ result.value.message = Text("Up to date")
          /\ step.kind # "RevListExit"

\* C5 as stated: with the two cases above, two resolved revisions that differ
\* give hasUpdates=true together with the commit count.
C5_ResultByCase ==
    /\ C5_UnableOrUpToDate
    /\ (Resolved /\ result.cur # result.rem) =>
          /\ result.value.hasUpdates
          /\ HasField(result.value, "commitsBehind")

\* C5, amended: with the two cases above, two resolved revisions that differ
\* make checkForUpdates run git rev-list --count cur..rem; when that succeeds
\* it returns hasUpdates=true with the revisions and the count, and when it
\* fails it returns hasUpdates=false with "Error checking for updates", no
\* revisions and no count.
C5_ResultByCaseOrError ==
    /\ C5_UnableOrUpToDate
    /\ (Resolved /\ result.cur # result.rem) =>
          /\ step.kind = "RevListExit"
          /\ \/ /\ result.value.hasUpdates
                /\ HasField(result.value, "commitsBehind")
                /\ result.value.commitsBehind = RevListCount(result.cur, result.rem)
                /\ result.value.currentCommit = result.cur
                /\ result.value.remoteCommit = result.rem
             \/ /\ Bare(result.value, "Error checking for updates")
                /\ HasField(result.value, "error")

\* git rev-list fails on two resolved revisions that differ, and checkForUpdates
\* returns the error status.
C5_Witness ==
    /\ Resolved /\ result.cur # result.rem
    /\ step.kind = "RevListExit"
    /\ result.value = CheckError

\* C6: a git handler that awaits a subprocess is never left waiting for good:
\* the subprocess exits, or a timeout is there to kill it. (Whether the client
\* hangs and whether a timeout is set never change, so a handler whose step is
\* not enabled will never reply.)
C6_SubprocessSettles ==
    \A r \in InFlight : r.cmd \in GitCmds => ENABLED GitStep(r)

\* C7: no event is delivered more than once, and a crash event that a
\* subscribed relay consumes (the bot running, the allowlist not empty) gives
\* exactly one alert, to the default recipient, naming the process and the
\* exit code.
C7_ExactlyOnce ==
    step.kind = "Pm2Event" =>
        /\ Len(sent) <= 1
        /\ (event.event = "exit" /\ event.exit_code # 0 /\ Live # {}
              /\ bot # 0 /\ allowlist # <<>>) =>
             sent = << Reply(allowlist[1], "crash", AppName(event),
                             [text |-> "Exit Code", code |-> event.exit_code]) >>

\* The alert an event is to produce: crash for an exit with a non-zero code,
\* the event's own for stop, restart and online, None for anything else.
Expected(e) ==
    IF e.event = "exit" THEN (IF e.exit_code # 0 THEN "crash" ELSE None)
    ELSE IF e.event \in {"stop", "restart", "online"} THEN e.event
    ELSE None

\* C8: each listener that takes an event builds the alert of its class, and
\* none for an exit with code 0 or an event of another kind.
C8_Classification ==
    step.kind = "Pm2Event" =>
        /\ Len(produced) = (IF Expected(event) = None THEN 0 ELSE Cardinality(Live))
        /\ \A i \in 1..Len(produced) :
             /\ produced[i].kind = Expected(event)
             /\ produced[i].kind = "crash" => produced[i].detail.code = event.exit_code

\* A subscribed relay takes an exit with code 137 and builds the crash alert.
C8_Witness ==
    /\ step.kind = "Pm2Event" /\ event.event = "exit" /\ event.exit_code = 137
    /\ Live # {}
    /\ Kinds(produced) = {"crash"}

\* C9 as stated: every alert the relay builds is handed to the sink, for the
\* first entry of the allowlist and nobody else, whatever the allowlist.
C9_EveryAlertToDefault ==
    step.kind = "Pm2Event" =>
        /\ Len(sent) = Len(produced)
        /\ \A i \in 1..Len(sent) : allowlist # <<>> /\ sent[i].to = allowlist[1]

\* C9, amended: an alert the relay builds is handed to the sink exactly when
\* the bot is running and the allowlist is not empty, and then for the first
\* entry of the allowlist and nobody else; with the empty allowlist, or once
\* the bot is stopped, the alert is dropped.
C9_AlertToFirstEntry ==
    step.kind = "Pm2Event" =>
        /\ Len(sent) = (IF bot # 0 /\ allowlist # <<>> THEN Len(produced) ELSE 0)
        /\ \A i \in 1..Len(sent) :
             /\ allowlist # <<>>
             /\ sent[i].to = allowlist[1]
             /\ sent[i].kind = produced[i].kind

\* An alert goes to the first entry of a two-entry allowlist.
C9_Witness ==
    /\ step.kind = "Pm2Event" /\ produced # <<>>
    /\ Len(allowlist) = 2
    /\ Len(sent) = Len(produced)
    /\ sent[1].to = allowlist[1]

\* pullUpdates returned success in this step.
PullSucceeded == result.op = "pullUpdates" /\ result.value.success

\* C10 as stated: after a successful pull currentRevision() is the revision
\* remoteRevision() gave immediately before it (the remote's commit, which the
\* step leaves alone).
C10_PullReachesRemote ==
    PullSucceeded => GetCurrentGitCommit = ShortHash(result.remote)

\* C10, amended: after a successful pull the checked-out commit holds both the
\* commit that was checked out and the remote's commit; currentRevision() is
\* the revision remoteRevision() gave immediately before when the branch was
\* not ahead of the remote nor diverged from it (its commit was in the
\* remote's history), and it is unchanged when the remote's commit was already
\* in the branch's history.
C10_PullFastForwards ==
    PullSucceeded =>
        /\ result.headBefore \in Anc(head) /\ result.remote \in Anc(head)
        /\ result.headBefore \in Anc(result.remote) =>
             GetCurrentGitCommit = ShortHash(result.remote)
        /\ result.remote \in Anc(result.headBefore) => head = result.headBefore

\* A pull fast-forwards a branch that was behind its remote.
C10_Witness ==
    /\ PullSucceeded
    /\ result.headBefore # result.remote
    /\ result.headBefore \in Anc(result.remote)
    /\ head = result.remote

Failed == "exit" \in DOMAIN result /\ result.exit # 0

\* C12: whatever git invocation fails, the Synchronizer returns the null or
\* negative result: outside a repository (every rev-parse fails) the branch,
\* the revision and the remote revision every handler holds are None,
\* checkForUpdates returns hasUpdates=false and pullUpdates success=false; a
\* failed fetch gives remoteRevision None and hasUpdates=false; a failed
\* rev-list gives hasUpdates=false; a failed pull gives success=false; and no
\* git handler that describeApp answered ends in its catch.
C12_FailuresAbsorbed ==
    /\ ~isRepo =>
          /\ GetCurrentGitBranch = None /\ GetCurrentGitCommit = None
          /\ \A r \in InFlight : r.cur = None /\ r.br = None /\ r.rem = None
          /\ Checked => result.cur = None /\ result.rem = None /\ ~result.value.hasUpdates
          /\ result.op = "pullUpdates" => ~result.value.success
    /\ (Checked /\ step.kind = "FetchExit") => result.rem = None /\ ~result.value.hasUpdates
    /\ (Checked /\ Failed) => ~result.value.hasUpdates
    /\ (result.op = "pullUpdates" /\ Failed) =>
          /\ ~result.value.success
          /\ Kinds(sent) = {"pull_failed"}
    /\ step.kind # "DescribeAppReturn" => "failed" \notin Kinds(sent)

\* git pull fails and pullUpdates returns success=false to the handler.
C12_Witness ==
    /\ result.op = "pullUpdates" /\ Failed
    /\ result.value = PullFailed
    /\ Kinds(sent) = {"pull_failed"}

\* C13: pullUpdates returns success=false with "Unable to determine current
\* branch" when the branch does not resolve, and then no git pull is ever run;
\* when the branch resolves it runs one git pull origin <branch>, for the
\* branch getCurrentGitBranch returned, and returns success=true only from the
\* exit of that pull with code 0.
C13_PullFailsFast ==
    /\ [](/\ (result.op = "pullUpdates" /\ step.kind = "RevParseBranchExit") =>
               /\ ~isRepo
               /\ result.value = PullNoBranch
               /\ calls = {}
               /\ Kinds(sent) = {"pull_failed"}
          /\ "git pull origin" \in calls =>
               /\ isRepo
               /\ step.kind = "RevParseBranchExit" /\ step.cmd = "git_pull"
          /\ \A r \in InFlight : r.pc = "pull" => r.cmd = "git_pull" /\ r.br = CheckedOut /\ isRepo
          /\ (result.op = "pullUpdates" /\ result.value.success) =>
               step.kind = "PullExit" /\ "exit" \in DOMAIN result /\ result.exit = 0
          /\ (result.op = "pullUpdates" /\ step.kind = "PullExit" /\ result.exit # 0) =>
               ~result.value.success)
    /\ [][/\ (step'.kind = "RevParseBranchExit" /\ step'.cmd = "git_pull") =>
               \E r \in InFlight :
                  /\ r.cmd = "git_pull" /\ r.pc = "rev-parse-branch"
                  /\ IF isRepo
                     THEN /\ calls' = {"git pull origin"}
                          /\ tasks' = Resume(r, [r EXCEPT !.br = CheckedOut, !.pc = "pull"])
                     ELSE tasks' = Finish(r) /\ head' = head /\ origin' = origin
          /\ step'.kind = "PullExit" =>
               \E r \in InFlight :
                  /\ r.pc = "pull"
                  /\ \A q \in BagToSet(tasks') : q.pc = "pull" =>
                        CopiesIn(q, tasks') <= CopiesIn(q, tasks)
                  /\ BagCardinality(tasks') <= BagCardinality(tasks)]_vars

\* pullUpdates gives up outside a repository, without a pull.
C13_Witness ==
    /\ result.op = "pullUpdates" /\ step.kind = "RevParseBranchExit"
    /\ result.value = PullNoBranch
    /\ calls = {}
    /\ ~isRepo

\* The calls that start, stop, restart or reload a process.
LifecycleCalls ==
    {"startApp", "pm2.connect", "pm2.restart", "stopApp", "restartApp", "reloadApp"}

\* C14: no step of a /git_pull handler, the pull succeeded or failed, issues a
\* call that starts, stops, restarts or reloads a process, and none changes the
\* status of a process; a successful pull ends with the message that names the
\* new commit and asks for a reload.
C14_PullNeverReloads ==
    /\ [](step.cmd = "git_pull" =>
            /\ calls \cap LifecycleCalls = {}
            /\ \A r \in InFlight : r.cmd = "git_pull" =>
                 r.pc \in {"describeApp", "rev-parse-branch", "pull", "rev-parse-head"}
            /\ (step.kind = "RevParseHeadExit" /\ ~Refused(step.from)) =>
                 sent = << Reply(step.from, "pulled", step.arg, Text(GetCurrentGitCommit)) >>)
    /\ [][step'.cmd = "git_pull" => procStatus' = procStatus]_vars

\* /git_pull ends with the reminder and the process it pulled for is still stopped.
C14_Witness ==
    /\ step.cmd = "git_pull" /\ step.kind = "RevParseHeadExit"
    /\ Kinds(sent) = {"pulled"}
    /\ head = 2
    /\ procStatus[step.arg] = "stopped"

\* The step is the return of a supervisor operation that failed.
SupervisorSteps ==
    {"ListAppsReturn", "Pm2ConnectCb", "Pm2RestartCb", "FacadeReturn", "DescribeAppReturn"}
SupervisorFailed == step.kind \in SupervisorSteps /\ result.exit # 0

\* C15: when a supervisor operation fails (an identifier it does not know, or
\* the daemon out of reach) the handler that issued it sends one message, the
\* failure message with the supervisor's error text, and ends there; the step
\* changes no process status and no working directory and ends no other
\* handler; and the bot still takes the next message.
C15_SupervisorFailure ==
    /\ [](/\ SupervisorFailed =>
               /\ Len(sent) = 1
               /\ sent[1].to = step.from /\ sent[1].kind = "failed"
               /\ sent[1].name = (IF step.cmd \in {"status", "git_check"} THEN NoName ELSE step.arg)
               /\ sent[1].detail.text \in {NotFoundText, DaemonDownText}
               /\ calls \subseteq {"pm2.disconnect"}
               /\ bot # 0
               /\ ENABLED (\E m \in Messages : Receive(m) /\ UNCHANGED lastCheck)
          /\ (step.kind \in {"FacadeReturn", "Pm2RestartCb"} /\ step.arg \notin Known) =>
               SupervisorFailed /\ sent[1].detail.text \in {NotFoundText, DaemonDownText})
    /\ [][SupervisorFailed' =>
             /\ procStatus' = procStatus
             /\ UNCHANGED gitVars
             /\ \E r \in InFlight :
                  /\ r.from = step'.from /\ r.cmd = step'.cmd
                  /\ tasks' = Finish(r)]_vars

\* /stop_app on a process the supervisor does not know fails with its error
\* text while another command is in flight.
C15_Witness ==
    /\ step.kind = "FacadeReturn" /\ step.cmd = "stop_app" /\ step.arg \notin Known
    /\ SupervisorFailed
    /\ sent = << Reply(step.from, "failed", step.arg, Text(NotFoundText)) >>
    /\ BagCardinality(tasks) = 1

\* The moves of one subscription: Disconnected is none, failed or closed,
\* Connecting is connecting or launching, Subscribed is subscribed.
RelayMoves ==
    { <<"none", "connecting">>, <<"connecting", "launching">>, <<"connecting", "failed">>,
      <<"launching", "subscribed">>, <<"launching", "failed">>, <<"subscribed", "closed">> }

\* How far a handler has come: the rank of the call it awaits.
Rank(r) ==
    CASE r.pc \in {"describeApp", "listApps", "pm2.connect", "stopApp", "restartApp",
                   "reloadApp"} -> 0
      [] r.pc = "pm2.restart" -> 1
      [] r.pc = "rev-parse-head" -> (IF r.cmd = "git_check" THEN 1 ELSE IF r.cmd = "git_status" THEN 2 ELSE 3)
      [] r.pc = "rev-parse-branch" -> (IF r.cmd = "git_check" THEN 2 ELSE 1)
      [] r.pc = "pull" -> 2
      [] r.pc = "fetch" -> 3
      [] r.pc = "rev-parse-origin" -> 4
      [] r.pc = "rev-list" -> 5

\* C16: a subscription moves only from Disconnected to Connecting to
\* Subscribed (and to Disconnected when the bot is stopped or the pm2 client
\* disconnects); one that failed in pm2.connect or pm2.launchBus stays
\* Disconnected, a connection is attempted only by startTelegramBot, and a
\* bus error changes nothing and
\* subscribes nothing. No handler repeats a call: each step of a command moves
\* its handler on to a later call or ends it, and only such a move issues calls.
C16_NoRetry ==
    /\ [](/\ step.kind = "BusConnectCb" => subs[step.from] \in {"launching", "failed"}
          /\ step.kind = "LaunchBusCb" => subs[step.from] \in {"subscribed", "failed"}
          /\ BagCardinality(tasks) <= 1)
    /\ [][/\ \A n \in 1..MaxStarts :
               /\ subs'[n] # subs[n] => << subs[n], subs'[n] >> \in RelayMoves
               /\ (subs'[n] # subs[n] /\ subs'[n] = "connecting") => step'.kind = "startTelegramBot"
               /\ (subs'[n] # subs[n] /\ subs[n] = "subscribed") =>
                    step'.kind \in {"stopTelegramBot", "Pm2RestartCb", "LaunchBusCb"}
          /\ Cardinality({ n \in 1..MaxStarts : subs'[n] # subs[n] /\ subs[n] # "subscribed" }) <= 1
          /\ step'.kind = "BusError" => UNCHANGED relayVars
          /\ step'.kind \in {"BusConnectCb", "LaunchBusCb", "BusError"} => UNCHANGED tasks
          /\ (tasks # EmptyBag /\ step'.kind \notin {"BusConnectCb", "LaunchBusCb", "BusError",
                                                     "startTelegramBot"}) =>
               \E r \in InFlight :
                  \/ tasks' = EmptyBag /\ calls' \subseteq {"pm2.disconnect"}
                  \/ \E q \in BagToSet(tasks') :
                        /\ q.cmd = r.cmd /\ q.from = r.from /\ q.arg = r.arg
                        /\ Rank(q) > Rank(r)
                        /\ calls' # {}
          /\ (tasks = EmptyBag /\ tasks' = EmptyBag) => calls' = {}]_vars

\* The subscription failed at startup and stays Disconnected while a /git_check
\* runs to its end.
C16_Witness ==
    /\ subs[1] = "failed" /\ \A n \in 2..MaxStarts : subs[n] = "none"
    /\ bot = 1 /\ pm2Bus = 0
    /\ step.kind = "RevParseOriginExit" /\ Kinds(sent) = {"up_to_date"}

RelaySteps == {"startTelegramBot", "BusConnectCb", "LaunchBusCb", "BusError"}

\* C17: nothing serializes the commands and the relay cannot hold them up.
\* Whatever is in flight and wherever the subscriptions stand (failed ones
\* included), every suspended handler can take its next step, and the bot takes
\* any further message (while the model's bound on handlers in flight leaves
\* room); a failure reply only comes from the failed supervisor call of that
\* very command; a step of the relay touches no handler, and a step of one
\* handler touches no other handler.
C17_Unserialized ==
    /\ [](/\ \A r \in InFlight : ENABLED (TaskStep(r) /\ UNCHANGED lastCheck)
          /\ (bot # 0 /\ BagCardinality(tasks) < MaxTasks) =>
               \A m \in TogetherMessages : ENABLED (Receive(m) /\ UNCHANGED lastCheck)
          /\ "failed" \in Kinds(sent) => SupervisorFailed)
    /\ [][/\ step'.kind \in RelaySteps =>
               /\ tasks' = tasks /\ procStatus' = procStatus /\ UNCHANGED gitVars
               /\ sent' = <<>>
          /\ step'.kind = "Receive" => tasks \sqsubseteq tasks'
          /\ step'.kind \notin (RelaySteps \cup {"Receive"}) =>
               \E r \in InFlight :
                  /\ r.cmd = step'.cmd /\ r.from = step'.from
                  /\ (tasks (-) SetToBag({r})) \sqsubseteq tasks'
                  /\ BagCardinality(tasks' (-) (tasks (-) SetToBag({r}))) <= 1]_vars

\* C17: commands are independent tasks that nothing serializes, and a failure
\* of the relay (pm2.connect, pm2.launchBus or the bus failing) leaves every
\* command in flight what it needs to complete: it does not close the
\* connection that a startApp waiting for pm2.restart is using.
C17_Independent ==
    /\ C17_Unserialized
    /\ [][step'.kind \in RelaySteps =>
            \A r \in InFlight : (r.pc = "pm2.restart" /\ connected) => connected']_vars

\* C18: no step of the gateway changes the branch checked out (only a
\* checkout by someone else does); getCurrentGitBranch returns the branch
\* checked out at that moment; git pull origin <branch> and git rev-parse
\* --short origin/<branch> are run for the branch getCurrentGitBranch
\* returned to the same call of pullUpdates or getRemoteGitCommit, and only
\* once it returned one.
C18_BranchKept ==
    /\ [](/\ \A r \in InFlight :
               r.pc \in {"fetch", "rev-parse-origin", "pull"} => r.br \in Branches
          /\ ("git pull origin" \in calls) <=> (result.op = "git pull origin")
          /\ ("git rev-parse --short origin" \in calls) <=>
               (result.op = "git rev-parse --short origin"))
    /\ [][/\ step'.kind # "Checkout" => branch' = branch
          /\ step'.kind = "RevParseBranchExit" =>
               /\ \A q \in BagToSet(tasks') :
                    (q \notin InFlight /\ q.pc # "rev-parse-branch") => q.br = GetCurrentGitBranch
               /\ result'.op = "git pull origin" =>
                    isRepo /\ result'.branch = branch
          /\ result'.op = "git rev-parse --short origin" =>
               \E r \in InFlight :
                  /\ r.pc = "fetch" /\ r.cmd = step'.cmd
                  /\ result'.branch = r.br]_vars

\* A pull runs for dev, the branch checked out.
C18_Witness ==
    /\ step.kind = "RevParseBranchExit"
    /\ result.op = "git pull origin" /\ result.branch = "dev"
    /\ branch = "dev"

\* C19: a git handler calls describeApp first and nothing else until it
\* returned; when describeApp returns None the handler sends the not-found
\* message and ends; so no Synchronizer call and no git subprocess ever runs
\* for a command whose process describeApp did not find.
C19_DescribeFirst ==
    /\ [](/\ (step.cmd \in GitCmds /\ step.kind = "Receive") => calls \subseteq {"describeApp"}
          /\ \A r \in InFlight :
               (r.cmd \in GitCmds /\ r.pc # "describeApp") => DescribeApp(r.arg) # NoApp
          /\ calls \cap SynchronizerCalls # {} =>
               /\ step.kind # "Receive"
               /\ DescribeApp(step.arg) # NoApp
          /\ (step.kind = "DescribeAppReturn" /\ result.exit = 0
                /\ DescribeApp(step.arg) = NoApp) =>
               /\ sent = << Reply(step.from, "not_found", step.arg, NoText) >>
               /\ calls = {})
    /\ [][(step'.kind = "DescribeAppReturn" /\ DescribeApp(step'.arg) = NoApp) =>
            \E r \in InFlight :
               /\ r.pc = "describeApp" /\ r.arg = step'.arg /\ r.cmd = step'.cmd
               /\ tasks' = Finish(r)
               /\ UNCHANGED gitVars]_vars

\* describeApp finds no process for /git_status, which ends with the not-found message.
C19_Witness ==
    /\ step.kind = "DescribeAppReturn" /\ step.cmd = "git_status"
    /\ result.exit = 0 /\ DescribeApp(step.arg) = NoApp
    /\ Kinds(sent) = {"not_found"}
    /\ calls = {}

\* C20: a command message runs exactly one handler, the one for its command
\* word: an unauthorized sender gets exactly one denial for it, and an
\* authorized sender gets the welcome message only for /start and nothing but
\* the outcome of the command's own handler.
C20_OneHandler ==
    step.kind = "Receive" =>
       /\ Len(MatchingOf[[from |-> step.from, cmd |-> step.cmd, rest |-> <<>>]]) = 1
       /\ Refused(step.from) =>
            sent = << Reply(step.from, "denied", NoName, NoText) >>
       /\ ~Refused(step.from) =>
            /\ "welcome" \in Kinds(sent) <=> step.cmd = "start"
            /\ Len(sent) <= 1

\* C21: a pm2.disconnect() closes no connection that a startApp in flight
\* still uses (one whose pm2.connect succeeded and whose pm2.restart has not
\* called back), and no step but stopTelegramBot ends a subscription: a
\* subscribed relay stays subscribed across the lifecycle commands.
C21_ConnectionIsolation ==
    /\ [](\A r \in InFlight : r.pc = "pm2.restart" => connected)
    /\ [][\A n \in 1..MaxStarts :
            (subs[n] = "subscribed" /\ step'.kind # "stopTelegramBot") =>
               subs'[n] = "subscribed"]_vars

\* C22: the callback of pm2.restart disconnects exactly once and before it
\* resolves or rejects, whether the restart failed or not, and the handler
\* then sends the one reply and ends; a failed pm2.connect issues no restart
\* and no disconnect, and its error is the handler's failure reply; the
\* /start_app handler calls startApp, pm2.connect, pm2.restart and
\* pm2.disconnect only, and none of the facade's other operations.
C22_StartAppTearsDown ==
    /\ [](/\ step.kind = "Pm2RestartCb" =>
               /\ result.did = << "pm2.disconnect", IF result.exit = 0 THEN "resolve" ELSE "reject" >>
               /\ calls = {"pm2.disconnect"}
               /\ ~connected
               /\ Len(sent) = 1
               /\ sent[1].kind = (IF result.exit = 0 THEN "started" ELSE "failed")
               /\ result.exit = 0 <=> step.arg \in Known
          /\ step.kind = "Pm2ConnectCb" =>
               IF result.exit = 0
               THEN calls = {"pm2.restart"} /\ sent = <<>> /\ connected
               ELSE /\ calls = {}
                    /\ sent = << Reply(step.from, "failed", step.arg, Text(DaemonDownText)) >>
          /\ step.cmd = "start_app" =>
               calls \subseteq {"startApp", "pm2.connect", "pm2.restart", "pm2.disconnect"}
          /\ \A r \in InFlight : r.cmd = "start_app" => r.pc \in {"pm2.connect", "pm2.restart"})
    /\ [][/\ step'.kind = "Pm2RestartCb" =>
               \E r \in InFlight :
                  /\ r.pc = "pm2.restart" /\ r.arg = step'.arg /\ r.from = step'.from
                  /\ tasks' = Finish(r)
          /\ step'.kind = "Pm2ConnectCb" =>
               \E r \in InFlight :
                  /\ r.pc = "pm2.connect" /\ r.arg = step'.arg /\ r.from = step'.from
                  /\ IF result'.exit = 0
                     THEN tasks' = Resume(r, [r EXCEPT !.pc = "pm2.restart"])
                     ELSE /\ tasks' = Finish(r)
                          /\ connected' = connected /\ subs' = subs
                  /\ procStatus' = procStatus]_vars

\* pm2.restart failed for a process the daemon does not know: the client was
\* disconnected before the error was reported.
C22_Witness ==
    /\ step.kind = "Pm2RestartCb" /\ result.exit # 0
    /\ result.did = << "pm2.disconnect", "reject" >>
    /\ Kinds(sent) = {"failed"}
    /\ ~connected

\* C24: in getRemoteGitCommit the branch is resolved first: git fetch is
\* issued only when getCurrentGitBranch returned, and only for a branch; with
\* no branch the remote revision is None and nothing is fetched; git
\* rev-parse --short origin/<branch> is issued only when git fetch exited, and
\* only when it exited with 0; a failed fetch gives the remote revision None.
C24_FetchBeforeResolve ==
    /\ [](/\ (step.kind = "RevParseBranchExit" /\ step.cmd = "git_check") =>
               IF GetCurrentGitBranch = None
               THEN /\ calls = {}
                    /\ Checked /\ result.rem = None
                    /\ \A r \in InFlight : r.cmd = "git_check" => r.pc \notin {"fetch", "rev-parse-origin"}
               ELSE calls = {"git fetch"}
          /\ "git fetch" \in calls => step.kind = "RevParseBranchExit" /\ step.cmd = "git_check"
          /\ "git rev-parse --short origin" \in calls =>
               /\ step.kind = "FetchExit"
               /\ result.op = "git rev-parse --short origin" /\ result.exit = 0
          /\ step.kind = "FetchExit" =>
               \/ /\ result.op = "git rev-parse --short origin" /\ result.exit = 0
                  /\ calls = {"git rev-parse --short origin"}
               \/ /\ Checked /\ result.rem = None /\ result.value = CheckUnable
                  /\ calls = {})
    /\ [][\A q \in BagToSet(tasks') :
            /\ (q.pc = "fetch" /\ q \notin InFlight) =>
                 /\ step'.kind = "RevParseBranchExit" /\ q.br # None
                 /\ [q EXCEPT !.pc = "rev-parse-branch", !.br = None] \in InFlight
            /\ (q.pc = "rev-parse-origin" /\ q \notin InFlight) =>
                 /\ step'.kind = "FetchExit" /\ result'.exit = 0
                 /\ [q EXCEPT !.pc = "fetch"] \in InFlight]_vars

\* git fetch fails: checkForUpdates gets no remote revision and origin/<branch>
\* is not resolved.
C24_Witness ==
    /\ step.kind = "FetchExit"
    /\ Checked /\ result.rem = None /\ result.cur # None
    /\ calls = {}
    /\ \A r \in InFlight : r.pc # "rev-parse-origin"

\* C23: from stopTelegramBot until the next startTelegramBot (the module's
\* bot is null) the module's pm2Bus is null, no listener of the relay is on an
\* open bus and no alert is sent, also when stopTelegramBot ran before the
\* callback of pm2.launchBus.
C23_StoppedHoldsNothing ==
    bot = 0 =>
       /\ pm2Bus = 0
       /\ Live = {}
       /\ sent = <<>>

\* The update message the count n asks for: "1 commit behind", and "n commits
\* behind" for every other n.
Pluralized(n) == [n |-> n, word |-> IF n = 1 THEN "commit" ELSE "commits", text |-> "behind"]

\* C25: whenever checkForUpdates returns hasUpdates=true with the count N its
\* message is "N commits behind", or "1 commit behind" when N is 1; and the
\* /git_check handler replies to what checkForUpdates returned with exactly
\* one message: unable to check, up to date, or updates available with that
\* message and the hint to pull.
C25_Pluralized ==
    Checked =>
       /\ result.value.hasUpdates =>
            result.value.message = Pluralized(result.value.commitsBehind)
       /\ Len(sent) = 1
       /\ \/ sent[1].kind = "info" /\ sent[1].detail = Text("Unable to check for updates")
          \/ sent[1].kind = "up_to_date"
          \/ /\ sent[1].kind = "updates_available"
             /\ sent[1].detail = Pluralized(result.value.commitsBehind)

====
